---- MODULE Spec2Model ----
(***************************************************************************)
(* InterviewCoach: the upload-validate-encode-submit pipeline.             *)
(*                                                                         *)
(*   VideoUploader (components/VideoUploader.tsx)  validateFile,           *)
(*       handleFileChange, handleDrop, handleDragOver, handleDragLeave,    *)
(*       clearFile                                                         *)
(*   App (App.tsx)  handleAnalyze, handleReset, and the render conditions  *)
(*       that decide which controls exist in a given state                 *)
(*   geminiService.ts  analyzeInterview, fileToGenerativePart              *)
(*                                                                         *)
(* JavaScript strings that the code inspects character by character (MIME  *)
(* types, data URLs) are sequences of one-character strings.  JavaScript   *)
(* values that may be null are records with a "type" field.                *)
(***************************************************************************)
EXTENDS Integers, Sequences, FiniteSets, TLC

VARIABLES
    apiKey,          \* process.env.API_KEY, fixed for the life of the page
    videoFile,       \* App: useState<File | null>
    jobDescription,  \* App: useState<string>
    status,          \* App: useState<UploadStatus>
    analysisResult,  \* App: useState<InterviewAnalysis | null>
    errorMessage,    \* App: useState<string | null>
    error,           \* VideoUploader: useState<string | null>
    dragActive,      \* VideoUploader: useState(false)
    pending,         \* handleAnalyze invocations suspended at their await
    calls,           \* ids of the submissions that called ai.models.generateContent
    submissions,     \* number of handleAnalyze invocations that passed line 171
    slotChanged,     \* history: setVideoFile ran while the latest submission was in flight
    last             \* history: the last handler step taken, with what it saw

vars == <<apiKey, videoFile, jobDescription, status, analysisResult, errorMessage,
          error, dragActive, pending, calls, submissions, slotChanged, last>>

----------------------------------------------------------------------------
(* Bounds *)

MaxSubmissions == 3

----------------------------------------------------------------------------
(* JavaScript values *)

Null == [type |-> "null"]
Undefined == [type |-> "undefined"]
Str(s) == [type |-> "string", value |-> s]
Num(n) == [type |-> "number", value |-> n]
Obj(o) == [type |-> "object", value |-> o]

\* ToBoolean: null, undefined, "", 0 and false are falsy.
Truthy(v) ==
    CASE v.type = "null"      -> FALSE
      [] v.type = "undefined" -> FALSE
      [] v.type = "string"    -> v.value # ""
      [] v.type = "number"    -> v.value # 0
      [] v.type = "boolean"   -> v.value
      [] OTHER                -> TRUE

----------------------------------------------------------------------------
(* Strings as character sequences *)

StartsWith(s, p) == Len(s) >= Len(p) /\ SubSeq(s, 1, Len(p)) = p

\* Indices of the separator characters of s, in increasing order.
RECURSIVE SepPositions(_, _, _)
SepPositions(s, sep, i) ==
    IF i > Len(s) THEN <<>>
    ELSE IF s[i] = sep THEN <<i>> \o SepPositions(s, sep, i + 1)
    ELSE SepPositions(s, sep, i + 1)

\* String.prototype.split(sep) for a one-character separator: the pieces
\* between separators, Len = number of separators + 1.
Split(s, sep) ==
    LET pos == SepPositions(s, sep, 1)
        n   == Len(pos)
        from(k) == IF k = 1 THEN 1 ELSE pos[k - 1] + 1
        to(k)   == IF k = n + 1 THEN Len(s) ELSE pos[k] - 1
    IN  [k \in 1..(n + 1) |-> SubSeq(s, from(k), to(k))]

----------------------------------------------------------------------------
(* Base64 (RFC 4648), as FileReader.readAsDataURL produces it *)

Base64Alphabet ==
    <<
     "A", "B", "C", "D", "E", "F", "G", "H", "I", "J", "K", "L", "M", "N", "O", "P",
     "Q", "R", "S", "T", "U", "V", "W", "X", "Y", "Z", "a", "b", "c", "d", "e", "f",
     "g", "h", "i", "j", "k", "l", "m", "n", "o", "p", "q", "r", "s", "t", "u", "v",
     "w", "x", "y", "z", "0", "1", "2", "3", "4", "5", "6", "7", "8", "9", "+", "/" >>

Base64Index(c) == CHOOSE i \in 0..63 : Base64Alphabet[i + 1] = c

\* One group of 1, 2 or 3 bytes -> 4 characters, padded with "=".
EncodeGroup(g) ==
    LET b1 == g[1]
        b2 == IF Len(g) >= 2 THEN g[2] ELSE 0
        b3 == IF Len(g) >= 3 THEN g[3] ELSE 0
        c1 == b1 \div 4
        c2 == (b1 % 4) * 16 + (b2 \div 16)
        c3 == (b2 % 16) * 4 + (b3 \div 64)
        c4 == b3 % 64
    IN  << Base64Alphabet[c1 + 1],
           Base64Alphabet[c2 + 1],
           IF Len(g) >= 2 THEN Base64Alphabet[c3 + 1] ELSE "=",
           IF Len(g) >= 3 THEN Base64Alphabet[c4 + 1] ELSE "=" >>

RECURSIVE Base64Encode(_)
Base64Encode(bytes) ==
    IF Len(bytes) = 0 THEN <<>>
    ELSE IF Len(bytes) <= 3 THEN EncodeGroup(bytes)
    ELSE EncodeGroup(SubSeq(bytes, 1, 3)) \o Base64Encode(SubSeq(bytes, 4, Len(bytes)))

\* Four characters -> 1, 2 or 3 bytes.
DecodeGroup(q) ==
    LET i1 == Base64Index(q[1])
        i2 == Base64Index(q[2])
        i3 == IF q[3] = "=" THEN 0 ELSE Base64Index(q[3])
        i4 == IF q[4] = "=" THEN 0 ELSE Base64Index(q[4])
        b1 == i1 * 4 + (i2 \div 16)
        b2 == (i2 % 16) * 16 + (i3 \div 4)
        b3 == (i3 % 4) * 64 + i4
    IN  IF q[3] = "=" THEN <<b1>>
        ELSE IF q[4] = "=" THEN <<b1, b2>>
        ELSE <<b1, b2, b3>>

IsBase64Text(t) ==
    /\ Len(t) % 4 = 0
    /\ \A i \in 1..Len(t) :
          \/ \E k \in 1..64 : Base64Alphabet[k] = t[i]
          \/ t[i] = "=" /\ i > Len(t) - 2 /\ (i = Len(t) \/ t[i + 1] = "=")

RECURSIVE Base64Decode(_)
Base64Decode(t) ==
    IF Len(t) = 0 THEN <<>>
    ELSE DecodeGroup(SubSeq(t, 1, 4)) \o Base64Decode(SubSeq(t, 5, Len(t)))

----------------------------------------------------------------------------
(* Files the user can offer.  type and the data URL are character         *)
(* sequences; bytes is the content (for the two files at the size ceiling *)
(* a short sample of it, the declared size being what the code reads).    *)

MAX_SIZE_MB == 50

SizeCeiling == MAX_SIZE_MB * 1024 * 1024

MimeMp4 == <<"v", "i", "d", "e", "o", "/", "m", "p", "4">>
MimeWebmParam == <<"v", "i", "d", "e", "o", "/", "w", "e", "b", "m", ";", "c", "o", "d", "e", "c", "s", "=", "v", "p", "9">>
MimeMp4Codecs == <<"v", "i", "d", "e", "o", "/", "m", "p", "4", ";", "c", "o", "d", "e", "c", "s", "=", "\"", "a", "v", "c", "1", ",", "m", "p", "4", "a", "\"">>
MimeQuicktime == <<"v", "i", "d", "e", "o", "/", "q", "u", "i", "c", "k", "t", "i", "m", "e">>
MimePng == <<"i", "m", "a", "g", "e", "/", "p", "n", "g">>
MimeVideoBare == <<"v", "i", "d", "e", "o">>
MimeVideoX == <<"v", "i", "d", "e", "o", "x", "/", "r", "a", "w">>
MimeEmpty == <<>>

File(name, type, size, bytes) ==
    [name |-> name, type |-> type, size |-> size, bytes |-> bytes]

Files ==
    { File("empty.mp4",  MimeMp4,       0,               <<>>),
      File("full.mp4",   MimeMp4,       SizeCeiling,     <<77, 97, 110>>),
      File("clip.webm",  MimeWebmParam, 2,               <<255, 0>>),
      File("clip.mov",   MimeQuicktime, 4,               <<44, 44, 0, 251>>),
      File("av.mp4",     MimeMp4Codecs, 1,               <<62>>),
      File("big.mp4",    MimeMp4,       SizeCeiling + 1, <<1, 2, 3, 4, 5>>),
      File("shot.png",   MimePng,       10,              <<137, 80>>),
      File("big.png",    MimePng,       SizeCeiling + 1, <<137, 80, 78>>),
      File("bare",       MimeVideoBare, 3,               <<1, 2, 3>>),
      File("x.vx",       MimeVideoX,    SizeCeiling + 1, <<9>>),
      File("noext",      MimeEmpty,     5,               <<0>>) }

\* e.target.files / e.dataTransfer.files: empty, or the offered file first.
FileLists == {<<>>} \cup {<<f>> : f \in Files}

----------------------------------------------------------------------------
(* VideoUploader.validateFile *)

TypeMsg == "Please upload a valid video file (MP4, WebM, MOV)."
SizeMsg == "File size exceeds the 50MB limit for this demo."

VideoPrefix == <<"v", "i", "d", "e", "o", "/">>

\* Mutant of ValidateFile: the size is tested before the type.
ValidateFile_SizeFirst(file) ==
    IF file.size > MAX_SIZE_MB * 1024 * 1024
    THEN [valid |-> FALSE, error |-> Str(SizeMsg)]
    ELSE IF ~StartsWith(file.type, VideoPrefix)
    THEN [valid |-> FALSE, error |-> Str(TypeMsg)]
    ELSE [valid |-> TRUE, error |-> Null]

\* validateFile's result and the value it leaves in the error slot.
ValidateFile(file) ==
    IF ~StartsWith(file.type, VideoPrefix)
    THEN [valid |-> FALSE, error |-> Str(TypeMsg)]
    ELSE IF file.size > MAX_SIZE_MB * 1024 * 1024
    THEN [valid |-> FALSE, error |-> Str(SizeMsg)]
    ELSE [valid |-> TRUE, error |-> Null]

----------------------------------------------------------------------------
(* geminiService.fileToGenerativePart *)

Chars(s) == [type |-> "string", chars |-> s]

DataPrefix == <<"d", "a", "t", "a", ":">>
Base64Marker == <<";", "b", "a", "s", "e", "6", "4", ",">>

\* reader.result after a successful readAsDataURL.
ReadAsDataURL(file) ==
    DataPrefix \o file.type \o Base64Marker \o Base64Encode(file.bytes)

\* array[i] in JavaScript (0-based): undefined past the end.
JsIndex(arr, i) == IF i + 1 <= Len(arr) THEN Chars(arr[i + 1]) ELSE Undefined

\* onloadend: base64String.split(',')[1], with the file's type.
FileToGenerativePart(file) ==
    [mimeType |-> file.type,
     data     |-> JsIndex(Split(ReadAsDataURL(file), ","), 1)]

\* Mutant of ReadFailure: the read is awaited inside the try block, so its
\* failure is rethrown as the generic error.
ReadFailure_Generic == [name |-> "Error", message |-> "Failed to analyze the video. The file might be too large or the format unsupported."]

\* onerror = reject: the promise rejects with the reader's error event,
\* which is not an Error and carries no message.
ReadFailure == [name |-> "ProgressEvent"]

----------------------------------------------------------------------------
(* geminiService.analyzeInterview *)

ConfigMsg == "API Key is missing. Please set it in the environment."
NoTextMsg == "No response text received from Gemini."
GenericMsg == "Failed to analyze the video. The file might be too large or the format unsupported."
FallbackMsg == "Something went wrong during analysis."
DefaultRole == "General Software Engineering Role"

Err(message) == [name |-> "Error", message |-> message]

ApiKeys == {Undefined, Str(""), Str("k")}

\* Mutant of MissingKey: only an absent key counts, an empty one passes.
MissingKey_AbsentOnly(key) == key = Undefined

\* if (!apiKey)
MissingKey(key) == ~Truthy(key)

\* ${jobDescription || 'General Software Engineering Role'}
PromptContext(jd) == IF jd # "" THEN jd ELSE DefaultRole

Report1 ==
    Obj([overallScore |-> 82, summary |-> "Solid",
         strengths |-> <<"Clear speech">>, weaknesses |-> <<"Rambling">>,
         actionableTips |-> <<"Be concise">>,
         categories |-> <<[name |-> "Verbal Communication", score |-> 80,
                           feedback |-> "Good pace", status |-> "good"]>>])
Report2 ==
    Obj([overallScore |-> 40, summary |-> "Weak",
         strengths |-> <<>>, weaknesses |-> <<"Filler words">>,
         actionableTips |-> <<"Slow down">>,
         categories |-> <<[name |-> "Body Language", score |-> 35,
                           feedback |-> "No eye contact",
                           status |-> "needs_improvement"]>>])

Text1 == "{\"overallScore\":82,\"summary\":\"Solid\",\"strengths\":[\"Clear speech\"],\"weaknesses\":[\"Rambling\"],\"actionableTips\":[\"Be concise\"],\"categories\":[{\"name\":\"Verbal Communication\",\"score\":80,\"feedback\":\"Good pace\",\"status\":\"good\"}]}"
Text2 == "{\"overallScore\":40,\"summary\":\"Weak\",\"strengths\":[],\"weaknesses\":[\"Filler words\"],\"actionableTips\":[\"Slow down\"],\"categories\":[{\"name\":\"Body Language\",\"score\":35,\"feedback\":\"No eye contact\",\"status\":\"needs_improvement\"}]}"

\* response.text values the service can hand back.
ResponseTexts ==
    {Undefined, Str(""), Str("<html>502</html>"), Str("{\"overallScore\":"),
     Str("null"), Str("0"), Str(Text1), Str(Text2)}

\* JSON.parse on those texts: the value, or a SyntaxError.
JsonParse(text) ==
    CASE text = "null" -> [ok |-> TRUE, value |-> Null]
      [] text = "0"    -> [ok |-> TRUE, value |-> Num(0)]
      [] text = Text1  -> [ok |-> TRUE, value |-> Report1]
      [] text = Text2  -> [ok |-> TRUE, value |-> Report2]
      [] OTHER         -> [ok |-> FALSE, error |-> [name |-> "SyntaxError", message |-> "Unexpected token"]]

\* Mutant of Rethrow: the catch block rethrows what it caught.
Rethrow_Cause(cause) == cause

\* catch (error) { throw new Error("Failed to analyze ...") }
Rethrow(cause) == Err(GenericMsg)

\* The try block after generateContent resolved with a response.
AfterResponse(response) ==
    IF Truthy(response.text)
    THEN LET parsed == JsonParse(response.text.value)
         IN  IF parsed.ok THEN [ok |-> TRUE, value |-> parsed.value]
             ELSE [ok |-> FALSE, error |-> Rethrow(parsed.error)]
    ELSE [ok |-> FALSE, error |-> Rethrow(Err(NoTextMsg))]

\* generateContent rejected or threw.
AfterRejection(cause) == [ok |-> FALSE, error |-> Rethrow(cause)]

NetworkError == [name |-> "ApiError", message |-> "503 Service Unavailable"]

----------------------------------------------------------------------------
(* App and VideoUploader state *)

JobDescriptions == {"", "Senior React Developer"}

\* Mutant of FormRendered: the form stays on the page beside the report.
FormRendered_Always == TRUE

\* React renders from the committed state: which controls exist.
ResultRendered == Truthy(analysisResult)            \* {analysisResult ? <AnalysisResult/> : <form/>}
FormRendered == ~Truthy(analysisResult)
DropzoneRendered == FormRendered /\ videoFile = Null \* VideoUploader without selectedFile
PreviewRendered == FormRendered /\ videoFile # Null  \* VideoUploader with selectedFile

\* Mutant of SubmitDisabled: the control ignores the status.
SubmitDisabled_FileOnly == videoFile = Null

\* disabled={!videoFile || status === UploadStatus.UPLOADING}
SubmitDisabled == videoFile = Null \/ status = "UPLOADING"

\* catch (error: any) in handleAnalyze: error.message || "Something went wrong ..."
CatchMessage(err) ==
    IF "message" \in DOMAIN err /\ err.message # "" THEN err.message ELSE FallbackMsg

\* VideoUploader's own state is lost when the form is replaced by the report.
UploaderAfter(result, cur) == IF Truthy(result) THEN [error |-> Null, dragActive |-> FALSE] ELSE cur

Init ==
    /\ apiKey \in ApiKeys
    /\ videoFile = Null
    /\ jobDescription = ""
    /\ status = "IDLE"
    /\ analysisResult = Null
    /\ errorMessage = Null
    /\ error = Null
    /\ dragActive = FALSE
    /\ pending = {}
    /\ calls = {}
    /\ slotChanged = FALSE
    /\ submissions = 0
    /\ last = [op |-> "init"]

\* onFileSelect={setVideoFile}
OnFileSelect(file) ==
    /\ videoFile' = file
    /\ slotChanged' = (slotChanged \/ pending # {})

\* Mutant of SelectIfValid: the file is handed on whatever validateFile said.
SelectIfValid_Unchecked(file) ==
    /\ error' = ValidateFile(file).error
    /\ OnFileSelect(file)

\* The body shared by handleFileChange and handleDrop once a file is present.
SelectIfValid(file) ==
    LET v == ValidateFile(file)
    IN  /\ error' = v.error
        /\ IF v.valid THEN OnFileSelect(file) ELSE UNCHANGED <<videoFile, slotChanged>>

HandleFileChange(files) ==
    /\ DropzoneRendered
    /\ IF Len(files) > 0
       THEN /\ SelectIfValid(files[1])
            /\ last' = [op |-> "handleFileChange", file |-> files[1], before |-> videoFile]
       ELSE /\ UNCHANGED <<videoFile, error, slotChanged>>
            /\ last' = [op |-> "handleFileChange", file |-> Null, before |-> videoFile]
    /\ UNCHANGED <<apiKey, jobDescription, status, analysisResult, errorMessage,
                   dragActive, pending, calls, submissions>>

HandleDrop(files) ==
    /\ DropzoneRendered
    /\ dragActive' = FALSE
    /\ IF Len(files) > 0
       THEN /\ SelectIfValid(files[1])
            /\ last' = [op |-> "handleDrop", file |-> files[1], before |-> videoFile]
       ELSE /\ UNCHANGED <<videoFile, error, slotChanged>>
            /\ last' = [op |-> "handleDrop", file |-> Null, before |-> videoFile]
    /\ UNCHANGED <<apiKey, jobDescription, status, analysisResult, errorMessage,
                   pending, calls, submissions>>

HandleDragOver ==
    /\ DropzoneRendered
    /\ dragActive' = TRUE
    /\ last' = [op |-> "handleDragOver"]
    /\ UNCHANGED <<apiKey, videoFile, jobDescription, status, analysisResult,
                   errorMessage, error, pending, calls, submissions, slotChanged>>

HandleDragLeave ==
    /\ DropzoneRendered
    /\ dragActive' = FALSE
    /\ last' = [op |-> "handleDragLeave"]
    /\ UNCHANGED <<apiKey, videoFile, jobDescription, status, analysisResult,
                   errorMessage, error, pending, calls, submissions, slotChanged>>

ClearFile ==
    /\ PreviewRendered
    /\ OnFileSelect(Null)
    /\ error' = Null
    /\ last' = [op |-> "clearFile", file |-> videoFile]
    /\ UNCHANGED <<apiKey, jobDescription, status, analysisResult, errorMessage,
                   dragActive, pending, calls, submissions>>

SetJobDescription(text) ==
    /\ FormRendered
    /\ text # jobDescription
    /\ jobDescription' = text
    /\ last' = [op |-> "setJobDescription"]
    /\ UNCHANGED <<apiKey, videoFile, status, analysisResult, errorMessage, error,
                   dragActive, pending, calls, submissions, slotChanged>>

\* handleAnalyze up to its await.  analyzeInterview runs synchronously up to
\* its own first await: with no key it throws at once and the catch block
\* runs before any other event (UPLOADING and the cleared message are
\* overwritten in the same task); otherwise the file read is started.
HandleAnalyze ==
    /\ FormRendered
    /\ ~SubmitDisabled
    /\ videoFile # Null
    /\ submissions < MaxSubmissions
    /\ submissions' = submissions + 1
    /\ slotChanged' = FALSE
    /\ IF MissingKey(apiKey)
       THEN /\ errorMessage' = Str(CatchMessage(Err(ConfigMsg)))
            /\ status' = "ERROR"
            /\ last' = [op |-> "handleAnalyze", thrown |-> Err(ConfigMsg),
                        outstanding |-> Cardinality(pending)]
            /\ UNCHANGED pending
       ELSE /\ status' = "UPLOADING"
            /\ errorMessage' = Null
            /\ pending' = pending \cup
                 {[id |-> submissions + 1, phase |-> "reading", videoFile |-> videoFile,
                   jobDescription |-> jobDescription]}
            /\ last' = [op |-> "handleAnalyze", thrown |-> Null,
                        outstanding |-> Cardinality(pending)]
    /\ UNCHANGED <<apiKey, videoFile, jobDescription, analysisResult, error,
                   dragActive, calls>>

\* The end of a handleAnalyze invocation p: try succeeded with result.
Succeed(p, result, op, input) ==
    /\ analysisResult' = result
    /\ status' = "READY"
    /\ pending' = pending \ {p}
    /\ error' = UploaderAfter(result, [error |-> error, dragActive |-> dragActive]).error
    /\ dragActive' = UploaderAfter(result, [error |-> error, dragActive |-> dragActive]).dragActive
    /\ last' = [op |-> op, id |-> p.id, ok |-> TRUE, input |-> input, result |-> result,
                file |-> p.videoFile, resultBefore |-> analysisResult]
    /\ UNCHANGED <<apiKey, videoFile, jobDescription, errorMessage, submissions, slotChanged>>

\* Mutant of Fail: the catch block stores the message and forgets the status.
Fail_NoStatus(p, err, op, input) ==
    /\ errorMessage' = Str(CatchMessage(err))
    /\ pending' = pending \ {p}
    /\ last' = [op |-> op, id |-> p.id, ok |-> FALSE, input |-> input, thrown |-> err,
                file |-> p.videoFile, resultBefore |-> analysisResult]
    /\ UNCHANGED <<apiKey, videoFile, jobDescription, analysisResult, status, error,
                   dragActive, submissions, slotChanged>>

\* The end of a handleAnalyze invocation p: the catch block, with the error thrown.
Fail(p, err, op, input) ==
    /\ errorMessage' = Str(CatchMessage(err))
    /\ status' = "ERROR"
    /\ pending' = pending \ {p}
    /\ last' = [op |-> op, id |-> p.id, ok |-> FALSE, input |-> input, thrown |-> err,
                file |-> p.videoFile, resultBefore |-> analysisResult]
    /\ UNCHANGED <<apiKey, videoFile, jobDescription, analysisResult, error,
                   dragActive, submissions, slotChanged>>

\* reader.onloadend after a complete read: the promise resolves, the prompt
\* is built and generateContent is called.
ReaderLoadEnd(p) ==
    /\ p \in pending
    /\ p.phase = "reading"
    /\ calls' = calls \cup {p.id}
    /\ pending' = (pending \ {p}) \cup
         {[id |-> p.id, phase |-> "generating", videoFile |-> p.videoFile,
           jobDescription |-> p.jobDescription,
           inlineData |-> FileToGenerativePart(p.videoFile),
           context |-> PromptContext(p.jobDescription)]}
    /\ last' = [op |-> "readerLoadEnd", id |-> p.id]
    /\ UNCHANGED <<apiKey, videoFile, jobDescription, status, analysisResult,
                   errorMessage, error, dragActive, submissions, slotChanged>>

\* reader.onerror: the promise rejects outside analyzeInterview's try block.
\* The loadend event that follows finds the promise already settled.
ReaderError(p) ==
    /\ p \in pending
    /\ p.phase = "reading"
    /\ Fail(p, ReadFailure, "readerError", Null)
    /\ UNCHANGED calls

\* generateContent resolves with a response carrying text.
GenerateContentResolves(p, text) ==
    /\ p \in pending
    /\ p.phase = "generating"
    /\ LET r == AfterResponse([text |-> text])
       IN  IF r.ok THEN Succeed(p, r.value, "generateContentResolves", text)
           ELSE Fail(p, r.error, "generateContentResolves", text)
    /\ UNCHANGED calls

\* generateContent rejects (network or service failure).
GenerateContentRejects(p) ==
    /\ p \in pending
    /\ p.phase = "generating"
    /\ Fail(p, AfterRejection(NetworkError).error, "generateContentRejects", NetworkError)
    /\ UNCHANGED calls

\* onReset of AnalysisResult, which exists only while a report is rendered.
HandleReset ==
    /\ ResultRendered
    /\ videoFile' = Null
    /\ jobDescription' = ""
    /\ analysisResult' = Null
    /\ status' = "IDLE"
    /\ errorMessage' = Null
    /\ last' = [op |-> "handleReset", outstanding |-> Cardinality(pending)]
    /\ UNCHANGED <<apiKey, error, dragActive, pending, calls, submissions, slotChanged>>

Next ==
    \/ \E files \in FileLists : HandleFileChange(files)
    \/ \E files \in FileLists : HandleDrop(files)
    \/ HandleDragOver
    \/ HandleDragLeave
    \/ ClearFile
    \/ \E text \in JobDescriptions : SetJobDescription(text)
    \/ HandleAnalyze
    \/ \E p \in pending : ReaderLoadEnd(p)
    \/ \E p \in pending : ReaderError(p)
    \/ \E p \in pending, text \in ResponseTexts : GenerateContentResolves(p, text)
    \/ \E p \in pending : GenerateContentRejects(p)
    \/ HandleReset

Spec == Init /\ [][Next]_vars

\* The FileReader of a started read fires load or error (and then loadend).
ReadFinishes == \E p \in pending : ReaderLoadEnd(p) \/ ReaderError(p)

\* The promise of a generateContent call settles.
RemoteFinishes(texts) ==
    \E p \in pending :
        \/ \E text \in texts : GenerateContentResolves(p, text)
        \/ GenerateContentRejects(p)

\* The offers and responses that decide how a submission ends: a file that
\* is rejected and two that are accepted; no text, a text that is not JSON,
\* a text that parses to null, and a report.
LiveFileLists ==
    {<<f>> : f \in {g \in Files : g.name \in {"full.mp4", "empty.mp4", "shot.png"}}}

LiveTexts == {Undefined, Str("<html>502</html>"), Str("null"), Str(Text1)}

LiveNext ==
    \/ \E files \in LiveFileLists : HandleFileChange(files)
    \/ \E files \in LiveFileLists : HandleDrop(files)
    \/ ClearFile
    \/ HandleAnalyze
    \/ ReadFinishes
    \/ RemoteFinishes(LiveTexts)
    \/ HandleReset

\* The page under an environment in which every started read finishes and
\* every remote call returns or fails; the continuations after the awaits
\* then run, as the event loop runs every settled promise's reaction.
FairSpec ==
    /\ Init
    /\ [][LiveNext]_vars
    /\ WF_vars(ReadFinishes)
    /\ WF_vars(RemoteFinishes(LiveTexts))

----------------------------------------------------------------------------
(* Properties *)

NoCredential == apiKey = Undefined \/ apiKey = Str("")

Completions == {"readerError", "generateContentResolves", "generateContentRejects"}

\* C1: with no credential configured (API_KEY absent or empty) every
\* submission fails with the configuration-missing error, which differs from
\* the generic analysis-failed error; no generateContent call is ever issued,
\* nothing is left in flight, and the status is ERROR with the configuration
\* message in the error slot.
C1_ConfigErrorBeforeNetwork ==
    NoCredential =>
        /\ calls = {}
        /\ pending = {}
        /\ last.op \notin (Completions \cup {"readerLoadEnd"})
        /\ ConfigMsg # GenericMsg
        /\ last.op = "handleAnalyze" => last.thrown = Err(ConfigMsg)
        /\ submissions > 0 => status = "ERROR" /\ errorMessage = Str(ConfigMsg)

C1_Witness ==
    /\ apiKey = Str("")
    /\ last.op = "handleAnalyze"
    /\ submissions = 2
    /\ status = "ERROR"

\* C2: at most one submission is outstanding at any time; a submission
\* starts only when none is in flight, and while one is in flight the submit
\* control is disabled.
C2_AtMostOneOutstanding ==
    /\ Cardinality(pending) <= 1
    /\ last.op = "handleAnalyze" => last.outstanding = 0
    /\ pending # {} => status = "UPLOADING" /\ ~ENABLED HandleAnalyze

C2_Witness ==
    /\ pending # {}
    /\ submissions >= 2
    /\ last.op \in {"handleFileChange", "handleDrop"}
    /\ videoFile # Null

\* handleReset never runs while a submission is in flight: its control is
\* part of the report view, and no report is rendered during a flight.
ResetOnlyWhenSettled ==
    /\ pending # {} => ~ResultRendered
    /\ last.op = "handleReset" => last.outstanding = 0

InvalidJsonTexts == {Str("<html>502</html>"), Str("{\"overallScore\":")}

FailingRemoteOutcomes == {NetworkError, Undefined, Str("")} \cup InvalidJsonTexts

\* C4: a remote outcome that is a network/service failure, an absent or
\* empty response text, or a text that is not valid JSON makes
\* analyzeInterview fail with the one generic analysis-failed error; the
\* submission ends with status ERROR, the generic message in the error slot,
\* and the current-analysis slot as it was.
C4_RemoteFailuresAreGeneric ==
    (last.op \in {"generateContentResolves", "generateContentRejects"}
        /\ last.input \in FailingRemoteOutcomes) =>
        /\ ~last.ok
        /\ last.thrown = Err(GenericMsg)
        /\ status = "ERROR"
        /\ errorMessage = Str(GenericMsg)
        /\ analysisResult = last.resultBefore
        /\ last.id \notin {p.id : p \in pending}

C4_Witness ==
    /\ last.op = "generateContentResolves"
    /\ last.input \in InvalidJsonTexts
    /\ status = "ERROR"
    /\ analysisResult # Null

\* C5: a file that cannot be read to completion makes analyzeInterview fail
\* with an error that is neither the configuration-missing error nor the
\* generic analysis-failed error; no generateContent call is issued for that
\* submission, and it ends with status ERROR and a non-empty message that is
\* neither of the other two.
C5_ReadFailurePropagates ==
    last.op = "readerError" =>
        /\ ~last.ok
        /\ last.thrown # Err(ConfigMsg)
        /\ last.thrown # Err(GenericMsg)
        /\ last.thrown.name # "Error"
        /\ last.id \notin calls
        /\ last.id \notin {p.id : p \in pending}
        /\ status = "ERROR"
        /\ errorMessage # Null
        /\ errorMessage.value \notin {"", ConfigMsg, GenericMsg}

C5_Witness ==
    /\ last.op = "readerError"
    /\ status = "ERROR"
    /\ errorMessage = Str(FallbackMsg)

\* C6 (as stated): every file whose declared size exceeds the ceiling is
\* rejected with the size-limit reason, whatever its MIME type.
C6_SizeReasonRegardlessOfType ==
    (last.op \in {"handleFileChange", "handleDrop"} /\ last.file # Null
        /\ last.file.size > 50 * 1024 * 1024) =>
        /\ videoFile = last.before
        /\ error = Str(SizeMsg)

\* C6 (amended): every file whose declared size exceeds the ceiling is
\* rejected whatever its MIME type; the reason shown is the size-limit reason
\* when the type starts with "video/" and the type-mismatch reason otherwise,
\* the type being tested first.
C6_OversizeRejected ==
    (last.op \in {"handleFileChange", "handleDrop"} /\ last.file # Null
        /\ last.file.size > 50 * 1024 * 1024) =>
        /\ videoFile = last.before
        /\ videoFile = Null
        /\ error = IF StartsWith(last.file.type, <<"v", "i", "d", "e", "o", "/">>)
                   THEN Str(SizeMsg) ELSE Str(TypeMsg)

C6_Witness ==
    /\ last.op = "handleFileChange"
    /\ last.file # Null
    /\ last.file.size = 50 * 1024 * 1024 + 1
    /\ last.file.type = MimeMp4
    /\ error = Str(SizeMsg)

\* C7: a file whose MIME type does not start with "video" is rejected with
\* the type-mismatch reason and leaves the selected-file slot as it was, by
\* the picker and by drag-drop; the selected file, if any, always has a
\* MIME type starting with "video" and a size of at most 50 MiB, and a video
\* file of exactly 50 MiB is accepted.
C7_OnlyValidFilesSelected ==
    /\ videoFile # Null =>
          /\ StartsWith(videoFile.type, <<"v", "i", "d", "e", "o">>)
          /\ videoFile.size <= 50 * 1024 * 1024
    /\ (last.op \in {"handleFileChange", "handleDrop"} /\ last.file # Null) =>
          /\ ~StartsWith(last.file.type, <<"v", "i", "d", "e", "o">>) =>
                videoFile = last.before /\ error = Str(TypeMsg)
          /\ (last.file.type = MimeMp4 /\ last.file.size = 50 * 1024 * 1024) =>
                videoFile = last.file /\ error = Null

C7_Witness ==
    /\ last.op = "handleDrop"
    /\ last.file # Null
    /\ last.file.type = MimePng
    /\ videoFile = Null
    /\ error = Str(TypeMsg)
    /\ pending # {}

\* The part of a data URL after its first comma, as a data-URL decoder takes it.
DataUrlBody(url) ==
    LET pos == SepPositions(url, ",", 1)
    IN  IF Len(pos) = 0 THEN <<>> ELSE SubSeq(url, pos[1] + 1, Len(url))

\* C8: for every accepted file the encoder's output is the base64 payload
\* of the data URL with the whole "data:<mime>;base64," header stripped:
\* prefixed with a standard data-URL header and decoded, it gives back the
\* file's bytes.
C8_EncoderRoundTrip ==
    \A p \in pending :
        p.phase = "generating" =>
            /\ p.inlineData.mimeType = p.videoFile.type
            /\ p.inlineData.data # Undefined
            /\ p.inlineData.data = Chars(Base64Encode(p.videoFile.bytes))
            /\ LET body == DataUrlBody(DataPrefix \o MimeMp4 \o Base64Marker
                                        \o p.inlineData.data.chars)
               IN  IsBase64Text(body) /\ Base64Decode(body) = p.videoFile.bytes

\* C9: errorMessage is non-null exactly when status is ERROR, analysisResult
\* is non-null exactly when status is READY, and status UPLOADING never
\* coincides with an error message.
C9_SingleVariant ==
    /\ errorMessage # Null <=> status = "ERROR"
    /\ analysisResult # Null <=> status = "READY"
    /\ ~(status = "UPLOADING" /\ errorMessage # Null)

\* C10 (as stated): whenever a report is displayed with status READY, the
\* selected-file slot holds the file whose submission produced it.
C10_ReportMatchesSelectedFile ==
    (Truthy(analysisResult) /\ status = "READY") =>
        /\ last.op = "generateContentResolves"
        /\ videoFile = last.file

\* C10 (amended): whenever a report is displayed, the status is READY, the
\* report came from the submission that just completed, nothing has touched
\* the selected-file slot since, and the slot holds the submitted file
\* provided the user did not clear or replace the file while the submission
\* was in flight; a clear or a new selection during the flight does not keep
\* the report from appearing.
C10_ReportMatchesUnlessChanged ==
    Truthy(analysisResult) =>
        /\ status = "READY"
        /\ last.op = "generateContentResolves"
        /\ last.ok
        /\ analysisResult = last.result
        /\ ~slotChanged => videoFile = last.file

C10_Witness ==
    /\ Truthy(analysisResult)
    /\ ~slotChanged
    /\ videoFile # Null
    /\ submissions >= 2

\* C11: provided every started file read finishes and every remote call
\* returns or fails, each submission that starts with status UPLOADING
\* eventually completes with status READY or ERROR and is no longer in
\* flight; the status never stays UPLOADING forever, so the submit control
\* is not disabled forever while a file is selected.
C11_SubmissionsComplete ==
    /\ \A i \in 1..MaxSubmissions :
          (status = "UPLOADING" /\ \E p \in pending : p.id = i)
              ~> (/\ last.op \in Completions
                  /\ last.id = i
                  /\ status \in {"READY", "ERROR"}
                  /\ \A p \in pending : p.id # i)
    /\ (status = "UPLOADING") ~> (status \in {"READY", "ERROR"})
    /\ []<>(status # "UPLOADING")
    /\ []<>(videoFile = Null \/ ~(videoFile = Null \/ status = "UPLOADING"))

C11_Witness ==
    /\ last.op \in Completions
    /\ last.id = 2
    /\ status = "READY"
    /\ slotChanged
    /\ pending = {}

====
